---- MODULE Spec2Model ----
(***************************************************************************)
(* Model of guidobit/cdk-oas30-test.                                       *)
(*                                                                         *)
(*   src/lib/api-docs-stack.ts   ApiDocsStack: the construction pass that  *)
(*                               declares the REST API, its documentation  *)
(*                               version and documentation parts, the      *)
(*                               routes and the export function.           *)
(*   src/unnamed/part_000        the export handler (entry                 *)
(*                               src/lambda/getoas3.ts of the stack).      *)
(***************************************************************************)
EXTENDS Integers, Sequences, FiniteSets, TLC

(***************************************************************************)
(* Bounds of the model.                                                    *)
(***************************************************************************)
\* first reading of the wall clock (milliseconds since the epoch)
ClockStart == 998
\* how many milliseconds the wall clock may advance
MaxTicks == 2
\* how many ApiDocsStack instances are constructed
MaxStacks == 2
\* length (in code points) of an exported document
MaxDocLen == 2

(***************************************************************************)
(* Optional values: undefined / null is None, a present value v is Some(v).*)
(***************************************************************************)
None == <<>>
Some(v) == <<v>>

(***************************************************************************)
(* Date: `${now.getTime()}` and now.toISOString().                         *)
(***************************************************************************)
Digits == <<"0", "1", "2", "3", "4", "5", "6", "7", "8", "9">>

RECURSIVE ToDecimal(_)
\* template-literal formatting of a non-negative integer
ToDecimal(n) ==
    IF n < 10 THEN Digits[n + 1]
    ELSE ToDecimal(n \div 10) \o Digits[(n % 10) + 1]

\* a slip that would keep the version id at second resolution
getTimeSeconds(now) == ToDecimal(now \div 1000)

\* `${now.getTime()}`
getTime(now) == ToDecimal(now)

\* zero-padded decimal of width w
RECURSIVE Pad(_, _)
Pad(n, w) == IF w = 0 THEN "" ELSE Pad(n \div 10, w - 1) \o Digits[(n % 10) + 1]

\* civil date of a day number counted from 1970-01-01 (proleptic Gregorian)
CivilFromDays(days) ==
    LET z   == days + 719468
        era == z \div 146097
        doe == z - era * 146097
        yoe == (doe - (doe \div 1460) + (doe \div 36524) - (doe \div 146096)) \div 365
        doy == doe - (365 * yoe + (yoe \div 4) - (yoe \div 100))
        mp  == (5 * doy + 2) \div 153
        d   == doy - ((153 * mp + 2) \div 5) + 1
        m   == IF mp < 10 THEN mp + 3 ELSE mp - 9
        y   == yoe + era * 400 + (IF m <= 2 THEN 1 ELSE 0)
    IN  <<y, m, d>>

\* now.toISOString(): YYYY-MM-DDTHH:mm:ss.sssZ
toISOString(now) ==
    LET date == CivilFromDays(now \div 86400000)
        tod  == now % 86400000
    IN  Pad(date[1], 4) \o "-" \o Pad(date[2], 2) \o "-" \o Pad(date[3], 2)
        \o "T" \o Pad(tod \div 3600000, 2)
        \o ":" \o Pad((tod \div 60000) % 60, 2)
        \o ":" \o Pad((tod \div 1000) % 60, 2)
        \o "." \o Pad(tod % 1000, 3) \o "Z"

(***************************************************************************)
(* The construct tree of one ApiDocsStack.                                 *)
(***************************************************************************)
\* a documentation location: absent fields are None
Location(type, name, path, method) ==
    [type |-> type, name |-> name, path |-> path, method |-> method]

\* super(scope, id, props): a stack with nothing declared in it yet
NewStack ==
    [ api         |-> None,   \* this.api
      versions    |-> <<>>,   \* CfnDocumentationVersion resources
      parts       |-> <<>>,   \* CfnDocumentationPart resources
      resources   |-> {},     \* resource paths (sequences of path parts)
      methods     |-> {},     \* declared methods
      authorizers |-> {},     \* RequestAuthorizer names
      functions   |-> {},     \* NodejsFunction resources
      now         |-> None ]  \* the Date read by createApi

\* Resource.path: "/" + path parts joined by "/"
RECURSIVE PathOf(_)
PathOf(parts) ==
    IF parts = <<>> THEN ""
    ELSE PathOf(SubSeq(parts, 1, Len(parts) - 1)) \o "/" \o parts[Len(parts)]

ResourcePath(parts) == IF parts = <<>> THEN "/" ELSE PathOf(parts)

\* a method on a resource
Method(res, httpMethod, operationName, requestParameters, authorizer) ==
    [ path |-> ResourcePath(res), httpMethod |-> httpMethod,
      operationName |-> operationName,
      requestParameters |-> requestParameters, authorizer |-> authorizer ]

\* resource.addMethod(httpMethod, integration, options)
addMethod(stack, res, httpMethod, operationName, requestParameters, authorizer) ==
    [stack EXCEPT !.methods = @ \cup
        {Method(res, httpMethod, operationName, requestParameters, authorizer)}]

\* parent.addResource(pathPart); defaultCorsPreflightOptions of the RestApi
\* adds the OPTIONS preflight method to every resource
addResource(stack, parent, pathPart) ==
    LET res == Append(parent, pathPart)
    IN  addMethod([stack EXCEPT !.resources = @ \cup {res}],
                  res, "OPTIONS", None, {}, None)

\* new CfnDocumentationPart(this, id, { location, restApiId, properties })
CfnDocumentationPart(stack, id, location, restApiId, properties) ==
    [stack EXCEPT
        !.parts = Append(@, [ id |-> id, location |-> location,
                              restApiId |-> restApiId,
                              properties |-> properties ])]

\* new CfnDocumentationVersion(this, id, { restApiId, documentationVersion, description })
CfnDocumentationVersion(stack, id, restApiId, documentationVersion, description) ==
    [stack EXCEPT
        !.versions = Append(@, [ id |-> id, restApiId |-> restApiId,
                                 documentationVersion |-> documentationVersion,
                                 description |-> description ])]

\* new RestApi(this, 'api', { ..., deployOptions: { description }, ... });
\* restApiId is the identity the platform gives the API; the deployment stage
\* is named 'prod' and carries the documentation version deployOptions names
RestApi(restApiId, options) ==
    [ restApiId   |-> restApiId,
      description |-> "Blabla description",
      deploymentStage |->
          [ stageName            |-> "prod",
            description          |-> options.description,
            documentationVersion |-> options.documentationVersion ] ]

\* a slip that would publish the fresh snapshot with the deployment
deployOptionsAssociating(now, documentationVersion) ==
    [ description          |-> "Description of deployment at " \o toISOString(now),
      documentationVersion |-> Some(documentationVersion) ]

\* the deployOptions createApi passes to RestApi: a description and no
\* documentationVersion
deployOptions(now, documentationVersion) ==
    [ description          |-> "Description of deployment at " \o toISOString(now),
      documentationVersion |-> None ]

\* ApiDocsStack.createApi
createApi(stack, now, restApiId) ==
    LET documentationVersion == getTime(now)
        api == RestApi(restApiId, deployOptions(now, documentationVersion))
        s0 == addMethod([stack EXCEPT !.api = Some(api),
                                      !.now = Some(now),
                                      !.resources = @ \cup {<<>>}],
                        <<>>, "OPTIONS", None, {}, None)
        s1 == CfnDocumentationVersion(s0, "brute-force-docs-version",
                  api.restApiId, documentationVersion,
                  "Documentation generated at " \o toISOString(now))
    IN  CfnDocumentationPart(s1, "api-docs",
            Location("API", None, None, None), api.restApiId,
            "Documentation description generated at " \o toISOString(now))

\* authorizerName of the RequestAuthorizer
RequestAuthorizerName == "SomeAuthorizer"

\* new NodejsFunction(this, id, { environment, handler, entry })
NodejsFunction(stack, id, environment) ==
    [stack EXCEPT !.functions = @ \cup
        {[ id |-> id, environment |-> environment,
           handler |-> "default", entry |-> "src/lambda/getoas3.ts" ]}]

\* ApiDocsStack.authorizer
authorizer(stack) ==
    LET restApiId == stack.api[1].restApiId
        s0 == CfnDocumentationPart(stack, "some-request-authorizer-doc",
                  Location("AUTHORIZER", Some("SomeAuthorizer"), None, None),
                  restApiId, "Some authorizer description")
        s1 == NodejsFunction(s0, "some-authorizer-function", None)
    IN  [s1 EXCEPT !.authorizers = @ \cup {RequestAuthorizerName}]

\* ApiDocsStack.createTodo
createTodo(stack, todoRoute) ==
    addMethod(stack, todoRoute, "POST", Some("CreateTodo"), {}, None)

\* ApiDocsStack.listTodos
listTodos(stack, todoRoute, authorizerName) ==
    LET s0 == addMethod(stack, todoRoute, "GET", Some("ListTodos"),
                        {"method.request.header.Authorization"},
                        Some(authorizerName))
    IN  CfnDocumentationPart(s0, "ListTodo.Header.Authorization",
            Location("REQUEST_HEADER", Some("Authorization"),
                     Some(ResourcePath(todoRoute)), Some("GET")),
            stack.api[1].restApiId, "Authorization header description")

\* the resource todoRoute() returns: this.api.root.addResource('todo')
TodoRoute == <<"todo">>

\* ApiDocsStack.todoRoute
todoRoute(stack, authorizerName) ==
    LET s0 == addResource(stack, <<>>, "todo")
        s1 == createTodo(s0, TodoRoute)
    IN  listTodos(s1, TodoRoute, authorizerName)

\* ApiDocsStack.getTodoById
getTodoById(stack, todoItemRoute) ==
    addMethod(stack, todoItemRoute, "GET", Some("GetTodoById"), {}, None)

\* a copy-paste slip: the location of listTodos' documentation part reused
todoItemRouteCopied(stack, route) ==
    LET todoItemRoute == Append(route, "{todoId}")
        s0 == addResource(stack, route, "{todoId}")
        s1 == CfnDocumentationPart(s0, "todoIdDocs",
                  Location("REQUEST_HEADER", Some("Authorization"),
                           Some(ResourcePath(route)), Some("GET")),
                  stack.api[1].restApiId, "The id of the todo")
    IN  getTodoById(s1, todoItemRoute)

\* ApiDocsStack.todoItemRoute
todoItemRoute(stack, route) ==
    LET todoItemRoute == Append(route, "{todoId}")
        s0 == addResource(stack, route, "{todoId}")
        s1 == CfnDocumentationPart(s0, "todoIdDocs",
                  Location("PATH_PARAMETER", Some("todoId"),
                           Some(ResourcePath(route)), Some("GET")),
                  stack.api[1].restApiId, "The id of the todo")
    IN  getTodoById(s1, todoItemRoute)

\* the environment getOas3Spec gives the export function
Oas3Environment ==
    [ restApiId |-> Some("dekq8mivw9"), stage |-> Some("prod"),
      extensions |-> Some("apigateway") ]

\* ApiDocsStack.getOas3Spec
getOas3Spec(stack, oas3Route) ==
    LET s0 == NodejsFunction(stack, "getOas3", Some(Oas3Environment))
    IN  addMethod(s0, oas3Route, "GET", None, {}, None)

\* ApiDocsStack.apiDocsRoute
apiDocsRoute(stack) ==
    LET s0 == addResource(stack, <<>>, "api-docs")
        s1 == addResource(s0, <<"api-docs">>, "api-docs.json")
    IN  getOas3Spec(s1, <<"api-docs", "api-docs.json">>)

\* ApiDocsStack constructor
constructor(now, restApiId) ==
    LET s0 == createApi(NewStack, now, restApiId)
        s1 == authorizer(s0)
        s2 == todoRoute(s1, RequestAuthorizerName)
        s3 == todoItemRoute(s2, TodoRoute)
    IN  apiDocsRoute(s3)

(***************************************************************************)
(* The export handler.                                                     *)
(***************************************************************************)
\* UTF-8 bytes of one code point
Utf8EncodeCodePoint(cp) ==
    IF cp < 128 THEN <<cp>>
    ELSE IF cp < 2048 THEN <<192 + (cp \div 64), 128 + (cp % 64)>>
    ELSE IF cp < 65536 THEN
        <<224 + (cp \div 4096), 128 + ((cp \div 64) % 64), 128 + (cp % 64)>>
    ELSE <<240 + (cp \div 262144), 128 + ((cp \div 4096) % 64),
           128 + ((cp \div 64) % 64), 128 + (cp % 64)>>

RECURSIVE Utf8Encode(_)
\* the bytes of a text: what the platform puts in data.body
Utf8Encode(text) ==
    IF text = <<>> THEN <<>>
    ELSE Utf8EncodeCodePoint(Head(text)) \o Utf8Encode(Tail(text))

\* Buffer.from(buffer): a copy of the bytes
BufferFrom(bytes) == bytes

\* buf.toString('latin1'): one character per byte
toStringLatin1(buf) == buf

RECURSIVE toStringUtf8(_)
\* buf.toString('utf8'): the code points the bytes decode to; every maximal
\* ill-formed run of bytes decodes to one U+FFFD
toStringUtf8(buf) ==
    IF buf = <<>> THEN <<>>
    ELSE
      LET n    == Len(buf)
          b0   == buf[1]
          \* continuation bytes the lead byte announces
          need == IF b0 \in 194..223 THEN 1
                  ELSE IF b0 \in 224..239 THEN 2
                  ELSE IF b0 \in 240..244 THEN 3
                  ELSE 0
          \* the range the second byte must lie in
          lo   == IF b0 = 224 THEN 160 ELSE IF b0 = 240 THEN 144 ELSE 128
          hi   == IF b0 = 237 THEN 159 ELSE IF b0 = 244 THEN 143 ELSE 191
          ok(i) == /\ i <= n
                   /\ IF i = 2 THEN buf[i] \in lo..hi ELSE buf[i] \in 128..191
          \* how many of the announced continuation bytes are well formed
          good == IF need >= 1 /\ ok(2)
                  THEN IF need >= 2 /\ ok(3)
                       THEN IF need >= 3 /\ ok(4) THEN 3 ELSE 2
                       ELSE 1
                  ELSE 0
          bits(i) == buf[i] - 128
          cp   == IF need = 1 THEN (b0 - 192) * 64 + bits(2)
                  ELSE IF need = 2
                  THEN (b0 - 224) * 4096 + bits(2) * 64 + bits(3)
                  ELSE (b0 - 240) * 262144 + bits(2) * 4096
                       + bits(3) * 64 + bits(4)
      IN  IF b0 < 128 THEN <<b0>> \o toStringUtf8(Tail(buf))
          ELSE IF need > 0 /\ good = need
               THEN <<cp>> \o toStringUtf8(SubSeq(buf, need + 2, n))
          ELSE <<65533>> \o toStringUtf8(SubSeq(buf, good + 2, n))

\* a slip that would take the request parameters from the environment
getExportParamsFromEnv(processEnv) ==
    [ restApiId  |-> processEnv.restApiId,
      stageName  |-> processEnv.stage,
      exportType |-> "oas30",
      parameters |-> [extensions |-> processEnv.extensions] ]

\* handler: the GetExportRequest built from process.env
getExportParams(processEnv) ==
    [ restApiId  |-> processEnv.restApiId,
      stageName  |-> processEnv.stage,
      exportType |-> "oas30",
      parameters |-> [extensions |-> Some("documentation")] ]

\* callback(err) / callback(null, result)
CallbackCall(err, result) == [err |-> err, result |-> result]

\* handler: the function given to client.getExport, called with (err, data);
\* yields the calls of the completion callback it makes, in order, and the
\* exception that escapes it.  There is no return after callback(err), and
\* evaluating data.body on a null data throws a TypeError before the second
\* callback call is made.
getExportCallback(err, data) ==
    LET first == IF err # None THEN <<CallbackCall(err, None)>> ELSE <<>>
    IN  IF data = None
        THEN [ callbacks |-> first, thrown |-> Some("TypeError") ]
        ELSE [ callbacks |-> Append(first, CallbackCall(None, Some(
                   [ statusCode |-> 200,
                     headers    |-> ("Access-Control-Allow-Origin" :> "*"),
                     body       |-> toStringUtf8(BufferFrom(data[1].body)) ]))),
               thrown |-> None ]

(***************************************************************************)
(* Inputs.                                                                 *)
(***************************************************************************)
\* identities the platform may give a RestApi
ApiIds == {"dekq8mivw9", "a1b2c3d4e5", "f6g7h8i9j0"}

\* process.env of the export function: what getOas3Spec configures, or that
\* with restApiId or stage empty or undefined
Envs ==
    {Oas3Environment}
    \cup {[Oas3Environment EXCEPT !.restApiId = v] : v \in {Some(""), None}}
    \cup {[Oas3Environment EXCEPT !.stage = v] : v \in {Some(""), None}}

\* code points of exported documents: '{', U+00E9, U+20AC
CodePoints == {123, 233, 8364}

\* the texts of the OAS3 documents the platform exports
Documents == UNION {[1..n -> CodePoints] : n \in 1..MaxDocLen}

\* errors of the platform's export call
PlatformErrors == {"NotFoundException", "TooManyRequestsException"}

(***************************************************************************)
(* State.                                                                  *)
(***************************************************************************)
VARIABLES
    clock,          \* the wall clock new Date() reads, in milliseconds
    stacks,         \* the ApiDocsStack instances constructed so far
    pc,             \* the handler's invocation: "idle", "awaiting", "done"
    processEnv,     \* process.env of the invocation
    platformCalls,  \* the getExport requests the invocation has issued
    response,       \* the (err, data) getExport answered with
    callbacks,      \* the calls of the completion callback, in order
    thrown          \* the exception that escaped the getExport callback

vars == <<clock, stacks, pc, processEnv, platformCalls, response, callbacks, thrown>>

handlerVars == <<pc, processEnv, platformCalls, response, callbacks, thrown>>

Init ==
    /\ clock = ClockStart
    /\ stacks = <<>>
    /\ pc = "idle"
    /\ processEnv = Oas3Environment
    /\ platformCalls = <<>>
    /\ response = None
    /\ callbacks = <<>>
    /\ thrown = None

\* a millisecond passes
Tick ==
    /\ clock < ClockStart + MaxTicks
    /\ clock' = clock + 1
    /\ UNCHANGED <<stacks, handlerVars>>

\* the wall clock is set back by a millisecond
ClockStepBack ==
    /\ clock > ClockStart
    /\ clock' = clock - 1
    /\ UNCHANGED <<stacks, handlerVars>>

\* the restApiIds of the stacks constructed so far
UsedApiIds == {stacks[i].api[1].restApiId : i \in 1..Len(stacks)}

\* new ApiDocsStack(scope, id): one registration pass
Construct(restApiId) ==
    /\ Len(stacks) < MaxStacks
    /\ restApiId \notin UsedApiIds
    /\ stacks' = Append(stacks, constructor(clock, restApiId))
    /\ UNCHANGED <<clock, handlerVars>>

\* handler(event, context, callback) up to the client.getExport call
Invoke(env) ==
    /\ pc \in {"idle", "done"}
    /\ pc' = "awaiting"
    /\ processEnv' = env
    /\ platformCalls' = <<getExportParams(env)>>
    /\ response' = None
    /\ callbacks' = <<>>
    /\ thrown' = None
    /\ UNCHANGED <<clock, stacks>>

\* getExport answers with (err, data) and the handler's callback runs
GetExportAnswers(err, data) ==
    /\ pc = "awaiting"
    /\ pc' = "done"
    /\ response' = Some([err |-> err, data |-> data])
    /\ callbacks' = callbacks \o getExportCallback(err, data).callbacks
    /\ thrown' = getExportCallback(err, data).thrown
    /\ UNCHANGED <<clock, stacks, processEnv, platformCalls>>

\* the export succeeds: err is null, data.body holds the document's bytes
GetExportSucceeds ==
    \E text \in Documents :
        GetExportAnswers(None, Some([body |-> Utf8Encode(text)]))

\* the export fails: err is the platform's error, data is null
GetExportFails ==
    \E e \in PlatformErrors : GetExportAnswers(Some(e), None)

Next ==
    \/ Tick
    \/ ClockStepBack
    \/ \E restApiId \in ApiIds : Construct(restApiId)
    \/ \E env \in Envs : Invoke(env)
    \/ GetExportSucceeds
    \/ GetExportFails

Spec == Init /\ [][Next]_vars

TypeOK ==
    /\ clock \in ClockStart..(ClockStart + MaxTicks)
    /\ Len(stacks) <= MaxStacks
    /\ pc \in {"idle", "awaiting", "done"}
    /\ processEnv \in Envs

(***************************************************************************)
(* Properties.                                                             *)
(***************************************************************************)
\* the invocation has ended and getExport reported an error
ExportFailed == pc = "done" /\ response[1].err # None

\* the invocation has ended and getExport reported no error
ExportSucceeded == pc = "done" /\ response[1].err = None

\* C1: when getExport reports an error, the handler completes exactly once,
\* with that error: the completion callback is called once, with the error
\* and no result, and nothing else ends the invocation.
C1_FailureCompletesOnceWithError ==
    ExportFailed =>
        /\ callbacks = <<CallbackCall(response[1].err, None)>>
        /\ thrown = None

\* C2: for every document D the platform returns on a successful export,
\* the handler completes once with statusCode 200, the single header
\* Access-Control-Allow-Origin "*", and a body whose bytes are exactly D.
C2_SuccessReturnsDocumentUnchanged ==
    ExportSucceeded =>
        /\ thrown = None
        /\ Len(callbacks) = 1
        /\ callbacks[1].err = None
        /\ callbacks[1].result # None
        /\ LET result == callbacks[1].result[1]
           IN  /\ DOMAIN result = {"statusCode", "headers", "body"}
               /\ result.statusCode = 200
               /\ result.headers = ("Access-Control-Allow-Origin" :> "*")
               /\ Utf8Encode(result.body) = response[1].data[1].body

\* C2 witness: a successful export of a document with a multi-byte character
C2_Witness ==
    /\ ExportSucceeded
    /\ Len(callbacks) = 1
    /\ \E i \in DOMAIN response[1].data[1].body :
           response[1].data[1].body[i] >= 128

\* the configured apiId or stage is empty or absent
InvalidExportRequest ==
    \/ processEnv.restApiId \in {None, Some("")}
    \/ processEnv.stage \in {None, Some("")}

\* C3: when the configured apiId or stage is empty or absent, the export
\* fails with InvalidExportRequest and no call to the platform's export
\* capability is issued.
C3_InvalidRequestIssuesNoPlatformCall ==
    (pc # "idle" /\ InvalidExportRequest) =>
        /\ platformCalls = <<>>
        /\ callbacks = <<CallbackCall(Some("InvalidExportRequest"), None)>>

\* the version snapshot createApi declared in stack i
Snapshot(i) == stacks[i].versions[1]

\* C4 (as stated): any two snapshot creations yield distinct versionIds and
\* distinct creation timestamps.
C4_AnyTwoSnapshotsDistinct ==
    \A i, j \in 1..Len(stacks) :
        i # j =>
            /\ Snapshot(i).documentationVersion # Snapshot(j).documentationVersion
            /\ Snapshot(i).description # Snapshot(j).description

\* C4 (amended): any two snapshot creations that read different millisecond
\* clock values yield distinct versionIds and distinct creation timestamps.
C4_SnapshotsAtDifferentTimesDistinct ==
    \A i, j \in 1..Len(stacks) :
        stacks[i].now # stacks[j].now =>
            /\ Snapshot(i).documentationVersion # Snapshot(j).documentationVersion
            /\ Snapshot(i).description # Snapshot(j).description

\* C4 witness: two snapshots created at different clock readings
C4_Witness ==
    \E i, j \in 1..Len(stacks) :
        /\ stacks[i].now # stacks[j].now
        /\ Len(stacks[i].versions) = 1
        /\ Len(stacks[j].versions) = 1

\* the documentation version the deployment stage of stack i serves
ServedVersion(stk, i) == stk[i].api[1].deploymentStage.documentationVersion

\* C6: creating a version snapshot never associates it with the served
\* deployment: every step leaves the documentation version of each existing
\* deployment stage as it was, and the stage of a newly declared API, next
\* to which a snapshot is created, serves no documentation version.
C6_SnapshotNotAssociated ==
    [][\A i \in 1..Len(stacks') :
          IF i <= Len(stacks)
          THEN ServedVersion(stacks', i) = ServedVersion(stacks, i)
          ELSE ServedVersion(stacks', i) = None]_vars

\* C6 witness: several snapshots exist and no stage serves a version
C6_Witness ==
    /\ Len(stacks) >= 2
    /\ \A i \in 1..Len(stacks) :
           /\ Len(stacks[i].versions) = 1
           /\ ServedVersion(stacks, i) = None

\* the documentation parts registered so far: <<stack, index>> pairs
RegisteredParts ==
    UNION {{<<i, k>> : k \in DOMAIN stacks[i].parts} : i \in 1..Len(stacks)}

Part(p) == stacks[p[1]].parts[p[2]]

C8_ExactlyOneExportCall ==
    pc # "idle" =>
        /\ Len(platformCalls) = 1
        /\ platformCalls[1].exportType = "oas30"
        /\ platformCalls[1].parameters = [extensions |-> Some("documentation")]
        /\ platformCalls[1].restApiId = processEnv.restApiId
        /\ platformCalls[1].stageName = processEnv.stage

\* C8 witness: a failed export has ended with its one call issued
C8_Witness == ExportFailed /\ Len(platformCalls) = 1

\* the location of part names a parameter of a declared method
AddressesDeclaredMethod(stack, location) ==
    \E m \in stack.methods :
        /\ Some(m.path) = location.path
        /\ Some(m.httpMethod) = location.method

\* C9: every location key registered by a stack addresses a node of the API
\* the same stack declares: the AUTHORIZER name is a declared authorizer and
\* every PATH_PARAMETER / REQUEST_HEADER key's (path, method) is a declared
\* method on a resource whose path or request parameters contain the named
\* parameter.
C9_KeysAddressDeclaredNodes ==
    \A i \in 1..Len(stacks) : \A k \in DOMAIN stacks[i].parts :
        LET stack    == stacks[i]
            location == stack.parts[k].location
        IN  CASE location.type = "AUTHORIZER" ->
                     \E a \in stack.authorizers : Some(a) = location.name
              [] location.type = "PATH_PARAMETER" ->
                     /\ AddressesDeclaredMethod(stack, location)
                     /\ \E res \in stack.resources :
                            /\ Some(ResourcePath(res)) = location.path
                            /\ \E n \in DOMAIN res :
                                   Some(res[n]) =
                                       <<"{" \o location.name[1] \o "}">>
              [] location.type = "REQUEST_HEADER" ->
                     \E m \in stack.methods :
                         /\ Some(m.path) = location.path
                         /\ Some(m.httpMethod) = location.method
                         /\ ("method.request.header." \o location.name[1])
                                \in m.requestParameters
              [] OTHER -> TRUE

\* C10: the API identity the export function is configured to export is the
\* identity the stack's documentation parts and version snapshot are
\* registered against.
C10_ExportTargetsRegisteredApi ==
    \A i \in 1..Len(stacks) :
        LET stack == stacks[i]
        IN  \A f \in stack.functions :
                f.id = "getOas3" =>
                    /\ \A k \in DOMAIN stack.parts :
                           f.environment[1].restApiId = Some(stack.parts[k].restApiId)
                    /\ \A k \in DOMAIN stack.versions :
                           f.environment[1].restApiId = Some(stack.versions[k].restApiId)
====
